---- MODULE Spec2Model ----
(***************************************************************************)
(* EU Data Act compliance checker (compliance-checks/compliance_checker.py) *)
(*                                                                         *)
(* The module models ComplianceResult, ContractComplianceReport, the       *)
(* classifier detect_contract_type, the check executor execute_check, the  *)
(* orchestrator check_contract / check_multiple_contracts, the batch       *)
(* document of ComplianceReporter.export_json with its JSON text, and main *)
(* of run_compliance_check.py.                                             *)
(*                                                                         *)
(* Specifications: Spec (check_multiple_contracts and export_json),        *)
(* SpecMain (main), SpecDetect (detect_contract_type called directly) and  *)
(* SpecApi (the two report classes driven by a client).                    *)
(*                                                                         *)
(* Python values are modelled as follows.                                  *)
(*   - str used as a message or a category: a TLA+ string; Python's None   *)
(*     is the distinguished value None, different from the empty string.   *)
(*   - str used as a path: a sequence of one-character strings, so that    *)
(*     Path(..).stem, str.lower and the substring test are computed.       *)
(*   - dict (insertion ordered): a sequence of [key, value] entries.       *)
(*   - the rdflib graph: the answers it gives to the three ASK queries.    *)
(* timestamp, execution_time and total_triples carry no decision and are   *)
(* left out of the records.                                                *)
(***************************************************************************)
EXTENDS Integers, Sequences, FiniteSets, TLC

VARIABLES
    article_mappings,   \* DataActComplianceChecker.article_mappings
    contract_paths,     \* argument of check_multiple_contracts
    idx,                \* position of the for-loop of check_multiple_contracts
    pc,                 \* control point of the running call
    report,             \* local `report` of check_contract
    g,                  \* local `g` of check_contract
    todo,               \* descriptors the for-loop of check_contract still has to run
    result,             \* local `result` of execute_check
    rows,               \* rows the iteration over query_results has not yet produced
    reports,            \* local `reports` of check_multiple_contracts
    trace,              \* calls made on behalf of the contract being checked
    traces,             \* the call traces of the contracts already returned
    exported,           \* the document written by export_json
    heap,               \* ComplianceResult objects created by a client of the classes
    apiReport,          \* a ContractComplianceReport driven directly by a client
    detections,         \* the direct calls of detect_contract_type made so far
    written,            \* the text json.dump wrote to the output file
    exit_code           \* what main returned

vars ==
    << article_mappings, contract_paths, idx, pc, report, g, todo, result, rows,
       reports, trace, traces, exported, heap, apiReport, detections, written,
       exit_code >>

----------------------------------------------------------------------------
(* Bounds *)

\* longest result set a rule query returns
MaxRows == 1

\* number of direct calls of detect_contract_type a client makes
MaxCalls == 2

\* number of ComplianceResult objects a client creates
MaxObjs == 2

\* number of add_violation calls a client makes on one object
MaxViolations == 1

----------------------------------------------------------------------------
(* Python values *)

None == "None"

\* Python truthiness of an Optional[str]: None and "" are both falsy
Truthy(v) == v # None /\ v # ""

Types == {"B2C", "B2B", "B2G"}

RECURSIVE SumSeq(_)
SumSeq(s) == IF s = << >> THEN 0 ELSE Head(s) + SumSeq(Tail(s))

----------------------------------------------------------------------------
(* Paths: Path(p).stem.lower() and the substring test *)

UpperCase ==
    << "A", "B", "C", "D", "E", "F", "G", "H", "I", "J", "K", "L", "M",
       "N", "O", "P", "Q", "R", "S", "T", "U", "V", "W", "X", "Y", "Z" >>

LowerCase ==
    << "a", "b", "c", "d", "e", "f", "g", "h", "i", "j", "k", "l", "m",
       "n", "o", "p", "q", "r", "s", "t", "u", "v", "w", "x", "y", "z" >>

LowerChar(c) ==
    IF \E i \in 1..26 : UpperCase[i] = c
    THEN LowerCase[CHOOSE i \in 1..26 : UpperCase[i] = c]
    ELSE c

\* str.lower
Lower(s) == [ i \in 1..Len(s) |-> LowerChar(s[i]) ]

\* index of the last occurrence of character c in s, 0 when there is none
RFind(s, c) ==
    IF \E i \in 1..Len(s) : s[i] = c
    THEN CHOOSE i \in 1..Len(s) : s[i] = c /\ \A j \in (i+1)..Len(s) : s[j] # c
    ELSE 0

RECURSIVE StripSlashes(_)
StripSlashes(p) ==
    IF p # << >> /\ p[Len(p)] = "/" THEN StripSlashes(SubSeq(p, 1, Len(p) - 1)) ELSE p

\* PurePath.name: the final path component
PathName(p) ==
    LET q == StripSlashes(p)
    IN  SubSeq(q, RFind(q, "/") + 1, Len(q))

\* PurePath.stem: the final component without its last suffix
Stem(p) ==
    LET name == PathName(p)
        i    == RFind(name, ".")
    IN  IF 1 < i /\ i < Len(name) THEN SubSeq(name, 1, i - 1) ELSE name

\* Python's `t in s` on strings
Contains(s, t) ==
    \E i \in 1..(Len(s) - Len(t) + 1) : SubSeq(s, i, i + Len(t) - 1) = t

TokB2C == << "b", "2", "c" >>
TokB2B == << "b", "2", "b" >>
TokB2G == << "b", "2", "g" >>

\* no contract_path argument (the parameter's default, None)
NoPath == << "None" >>

TruthyPath(p) == p # NoPath /\ p # << >>

\* 'contract-b2c.owl'
LocB2C ==
    << "c", "o", "n", "t", "r", "a", "c", "t", "-", "b", "2", "c", ".", "o", "w", "l" >>

\* 'B2B-Robot.owl'
LocB2BUpper ==
    << "B", "2", "B", "-", "R", "o", "b", "o", "t", ".", "o", "w", "l" >>

\* 'b2g-b2c.owl'
LocTwoTokens ==
    << "b", "2", "g", "-", "b", "2", "c", ".", "o", "w", "l" >>

\* 'b2c/b2b-x.owl'
LocDirB2C ==
    << "b", "2", "c", "/", "b", "2", "b", "-", "x", ".", "o", "w", "l" >>

\* 'b2g/sample.owl'
LocDirOnly ==
    << "b", "2", "g", "/", "s", "a", "m", "p", "l", "e", ".", "o", "w", "l" >>

\* 'sample.owl'
LocPlain ==
    << "s", "a", "m", "p", "l", "e", ".", "o", "w", "l" >>

Locators == { LocB2C, LocB2BUpper, LocTwoTokens, LocDirB2C, LocDirOnly, LocPlain }


----------------------------------------------------------------------------
(* Query results: rows of RDF terms, some variables unbound *)

\* query_results.vars
QueryVars == << "violationType", "details" >>

\* an RDF term (URIRef or Literal); str(term) is its lexical form
Term(kind, lex) == [ kind |-> kind, lex |-> lex ]

\* what getattr(row, var, None) gives for a variable the row leaves unbound
Unbound == [ kind |-> "None", lex |-> "" ]

Str(term) == term.lex

\* a row binding both variables
RowFull ==
    [ violationType |-> Term("Literal", "NoAccessPath"),
      details       |-> Term("Literal", "missing access clause") ]

\* a row that leaves ?details unbound
RowPartial ==
    [ violationType |-> Term("URIRef", "http://www.semanticweb.org/dataact#NoAccessPath"),
      details       |-> Unbound ]

RowSet == { RowFull, RowPartial }

Bound(row) == { i \in 1..Len(QueryVars) : row[QueryVars[i]] # Unbound }

\* the violation dict execute_check builds from one row: the bound variables
\* only, each converted with str()
ViolationOf(row) ==
    { << QueryVars[i], Str(row[QueryVars[i]]) >> : i \in Bound(row) }

SeqsUpTo(S, n) == UNION { [ 1..k -> S ] : k \in 0..n }

ResultSets == SeqsUpTo(RowSet, MaxRows)

----------------------------------------------------------------------------
(* class ComplianceResult *)

ComplianceResult(article_id, article_name) ==
    [ article_id   |-> article_id,
      article_name |-> article_name,
      compliant    |-> TRUE,
      violations   |-> << >>,
      error        |-> None ]

add_violation_keeps_flag(self, violation) ==
    [ self EXCEPT !.violations = Append(@, violation) ]

add_violation(self, violation) ==
    [ self EXCEPT !.compliant = FALSE, !.violations = Append(@, violation) ]

SetError(self, message) == [ self EXCEPT !.error = message ]

ResultToDict_counts_clean_only(self) ==
    [ article_id      |-> self.article_id,
      article_name    |-> self.article_name,
      compliant       |-> self.compliant,
      violation_count |-> IF Truthy(self.error) THEN 0 ELSE Len(self.violations),
      violations      |-> self.violations,
      error           |-> self.error ]

\* ComplianceResult.to_dict without execution_time_ms
ResultToDict(self) ==
    [ article_id      |-> self.article_id,
      article_name    |-> self.article_name,
      compliant       |-> self.compliant,
      violation_count |-> Len(self.violations),
      violations      |-> self.violations,
      error           |-> self.error ]

MsgQueryFileNotFound == "Query file not found: <query_file>"
MsgErrorExecuting    == "Error executing query: <e>"

\* the messages execute_check stores in result.error
CheckErrors == { MsgQueryFileNotFound, MsgErrorExecuting }

----------------------------------------------------------------------------
(* class ContractComplianceReport; checks is the insertion-ordered dict *)

ContractComplianceReport(contract_name, contract_path) ==
    [ contract_name |-> contract_name,
      contract_path |-> contract_path,
      contract_type |-> None,
      checks        |-> << >>,
      load_error    |-> None ]

overall_compliant_counts_errors(self) ==
    IF Truthy(self.load_error)
    THEN FALSE
    ELSE \A i \in 1..Len(self.checks) : self.checks[i].value.compliant

overall_compliant(self) ==
    IF Truthy(self.load_error)
    THEN FALSE
    ELSE \A i \in 1..Len(self.checks) :
            ~Truthy(self.checks[i].value.error) => self.checks[i].value.compliant

total_violations_skips_errors(self) ==
    SumSeq([ i \in 1..Len(self.checks) |->
                IF Truthy(self.checks[i].value.error)
                THEN 0
                ELSE Len(self.checks[i].value.violations) ])

total_violations(self) ==
    SumSeq([ i \in 1..Len(self.checks) |-> Len(self.checks[i].value.violations) ])

\* dict item assignment: an existing key keeps its position
DictSet(d, key, value) ==
    IF \E i \in 1..Len(d) : d[i].key = key
    THEN [ i \in 1..Len(d) |->
             IF d[i].key = key THEN [ key |-> key, value |-> value ] ELSE d[i] ]
    ELSE Append(d, [ key |-> key, value |-> value ])

add_check(self, article_id, res) ==
    [ self EXCEPT !.checks = DictSet(@, article_id, res) ]

ReportToDict(self) ==
    [ contract_name     |-> self.contract_name,
      contract_path     |-> self.contract_path,
      contract_type     |-> self.contract_type,
      overall_compliant |-> overall_compliant(self),
      total_violations  |-> total_violations(self),
      checks            |-> [ i \in 1..Len(self.checks) |->
                                [ key   |-> self.checks[i].key,
                                  value |-> ResultToDict(self.checks[i].value) ] ],
      load_error        |-> self.load_error ]

\* the document ComplianceReporter.export_json dumps (without its timestamp)
export_json(rs) ==
    [ total_contracts     |-> Len(rs),
      compliant_contracts |-> Cardinality({ i \in 1..Len(rs) : overall_compliant(rs[i]) }),
      total_violations    |-> SumSeq([ i \in 1..Len(rs) |-> total_violations(rs[i]) ]),
      reports             |-> [ i \in 1..Len(rs) |-> ReportToDict(rs[i]) ] ]

----------------------------------------------------------------------------
(* class DataActComplianceChecker: registry and classifier *)

Descriptor(article_id, article_name, query_file) ==
    [ article_id |-> article_id, article_name |-> article_name, query_file |-> query_file ]

\* the table __init__ installs
SourceMappings ==
    [ B2C |-> << Descriptor("4.1", "User Access Rights", "query-4.1.sparql") >>,
      B2B |-> << Descriptor("8.6", "Trade Secret Exception", "query-8.6.sparql") >>,
      B2G |-> << Descriptor("19.2a", "Competitive Use Prohibition", "query-19.2.a.sparql") >> ]

\* the same table after a client has registered a second article for B2B
\* (article_mappings is a public attribute; check_contract iterates whatever
\* list it holds)
ExtendedMappings ==
    [ SourceMappings EXCEPT
        !.B2B = Append(@, Descriptor("8.7", "Second B2B Article", "query-8.7.sparql")) ]

Registries == { SourceMappings, ExtendedMappings }

\* dict.get(key, [])
Get(mapping, key) == IF key \in DOMAIN mapping THEN mapping[key] ELSE << >>

\* a loaded graph, as far as the classifier can tell graphs apart: the
\* categories for which  ASK { ?s a dataact:<T>DataSharing . FILTER(isIRI(?s)) }
\* is true
Graphs == [ instances : SUBSET Types ]

AskAnswer(graph, t) == t \in graph.instances

\* the order of the fallback loop
AskOrder == << "B2C", "B2B", "B2G" >>

AskFrom_last_match_wins(graph, i, asked) ==
    LET hits == { k \in i..Len(AskOrder) : AskAnswer(graph, AskOrder[k]) }
    IN  [ type  |-> IF hits = {}
                    THEN "UNKNOWN"
                    ELSE AskOrder[CHOOSE k \in hits : \A j \in hits : j <= k],
          asked |-> asked \o SubSeq(AskOrder, i, Len(AskOrder)) ]

\* the fallback loop from its i-th query on; `asked` lists the queries issued
RECURSIVE AskFrom(_, _, _)
AskFrom(graph, i, asked) ==
    IF i > Len(AskOrder)
    THEN [ type |-> "UNKNOWN", asked |-> asked ]
    ELSE IF AskAnswer(graph, AskOrder[i])
         THEN [ type |-> AskOrder[i], asked |-> Append(asked, AskOrder[i]) ]
         ELSE AskFrom(graph, i + 1, Append(asked, AskOrder[i]))

detect_contract_type_b2g_first(graph, contract_path) ==
    LET name == IF TruthyPath(contract_path) THEN Lower(Stem(contract_path)) ELSE << >>
    IN  IF TruthyPath(contract_path) /\ Contains(name, TokB2G)
        THEN [ type |-> "B2G", asked |-> << >> ]
        ELSE IF TruthyPath(contract_path) /\ Contains(name, TokB2C)
        THEN [ type |-> "B2C", asked |-> << >> ]
        ELSE IF TruthyPath(contract_path) /\ Contains(name, TokB2B)
        THEN [ type |-> "B2B", asked |-> << >> ]
        ELSE AskFrom(graph, 1, << >>)

detect_contract_type_miss_is_unknown(graph, contract_path) ==
    LET name == IF TruthyPath(contract_path) THEN Lower(Stem(contract_path)) ELSE << >>
    IN  IF TruthyPath(contract_path) /\ Contains(name, TokB2C)
        THEN [ type |-> "B2C", asked |-> << >> ]
        ELSE IF TruthyPath(contract_path) /\ Contains(name, TokB2B)
        THEN [ type |-> "B2B", asked |-> << >> ]
        ELSE IF TruthyPath(contract_path) /\ Contains(name, TokB2G)
        THEN [ type |-> "B2G", asked |-> << >> ]
        ELSE IF TruthyPath(contract_path)
        THEN [ type |-> "UNKNOWN", asked |-> << >> ]
        ELSE AskFrom(graph, 1, << >>)

\* returns the category and the ASK queries it issued against the graph
detect_contract_type(graph, contract_path) ==
    LET name == IF TruthyPath(contract_path) THEN Lower(Stem(contract_path)) ELSE << >>
    IN  IF TruthyPath(contract_path) /\ Contains(name, TokB2C)
        THEN [ type |-> "B2C", asked |-> << >> ]
        ELSE IF TruthyPath(contract_path) /\ Contains(name, TokB2B)
        THEN [ type |-> "B2B", asked |-> << >> ]
        ELSE IF TruthyPath(contract_path) /\ Contains(name, TokB2G)
        THEN [ type |-> "B2G", asked |-> << >> ]
        ELSE AskFrom(graph, 1, << >>)

MsgFileNotFound  == "File not found: <e>"
MsgErrorLoading  == "Error loading contract: <e>"
MsgUnknownType   == "Could not determine contract type (B2C/B2B/B2G)"

\* the messages load_contract returns as its error
LoadErrors == { MsgFileNotFound, MsgErrorLoading }

----------------------------------------------------------------------------
(* json.dump / json.load.  A document is a tree of JSON values; the text   *)
(* written to the file is the sequence of its tokens (punctuation, string, *)
(* number and literal tokens), which json.load parses back.  String        *)
(* escaping and white space are not modelled.                              *)

JNull        == [ k |-> "null" ]
JBool(b)     == [ k |-> "bool", b |-> b ]
JNum(n)      == [ k |-> "num", n |-> n ]
JStr(str)    == [ k |-> "str", s |-> str ]
JArr(items)  == [ k |-> "arr", items |-> items ]
JObj(members) == [ k |-> "obj", members |-> members ]

\* an Optional[str] field: None becomes null
JOpt(v) == IF v = None THEN JNull ELSE JStr(v)

Member(key, value) == [ key |-> key, value |-> value ]

\* a violation dict as a JSON object, keys in insertion order (the order of
\* query_results.vars)
ViolationJson(violation) ==
    LET keys == SelectSeq(QueryVars, LAMBDA v : \E p \in violation : p[1] = v)
    IN  JObj([ i \in 1..Len(keys) |->
                Member(keys[i], JStr((CHOOSE p \in violation : p[1] = keys[i])[2])) ])

\* the encoder applied to the dict of ComplianceResult.to_dict
ResultJson(d) ==
    JObj(<< Member("article_id", JStr(d.article_id)),
            Member("article_name", JStr(d.article_name)),
            Member("compliant", JBool(d.compliant)),
            Member("violation_count", JNum(d.violation_count)),
            Member("violations",
                   JArr([ i \in 1..Len(d.violations) |-> ViolationJson(d.violations[i]) ])),
            Member("error", JOpt(d.error)) >>)

\* the encoder applied to the dict of ContractComplianceReport.to_dict
ReportJson(d) ==
    JObj(<< Member("contract_name", JStr(d.contract_name)),
            Member("contract_path", JStr(d.contract_path)),
            Member("contract_type", JOpt(d.contract_type)),
            Member("overall_compliant", JBool(d.overall_compliant)),
            Member("total_violations", JNum(d.total_violations)),
            Member("checks",
                   JObj([ i \in 1..Len(d.checks) |->
                            Member(d.checks[i].key, ResultJson(d.checks[i].value)) ])),
            Member("load_error", JOpt(d.load_error)) >>)

\* the encoder applied to the `data` dict of export_json
BatchJson(d) ==
    JObj(<< Member("total_contracts", JNum(d.total_contracts)),
            Member("compliant_contracts", JNum(d.compliant_contracts)),
            Member("total_violations", JNum(d.total_violations)),
            Member("reports",
                   JArr([ i \in 1..Len(d.reports) |-> ReportJson(d.reports[i]) ])) >>)

Tok(t, v) == [ t |-> t, v |-> v ]

Punct(t) == Tok(t, 0)

\* json.dumps: the tokens of a value
RECURSIVE Dumps(_)
RECURSIVE DumpItems(_, _)
RECURSIVE DumpMembers(_, _)
Dumps(j) ==
    IF j.k = "null" THEN << Tok("null", 0) >>
    ELSE IF j.k = "bool" THEN << Tok(IF j.b THEN "true" ELSE "false", 0) >>
    ELSE IF j.k = "num" THEN << Tok("num", j.n) >>
    ELSE IF j.k = "str" THEN << Tok("str", j.s) >>
    ELSE IF j.k = "arr" THEN << Punct("[") >> \o DumpItems(j.items, 1) \o << Punct("]") >>
    ELSE << Punct("{") >> \o DumpMembers(j.members, 1) \o << Punct("}") >>

DumpItems(items, i) ==
    IF i > Len(items) THEN << >>
    ELSE (IF i > 1 THEN << Punct(",") >> ELSE << >>)
            \o Dumps(items[i]) \o DumpItems(items, i + 1)

DumpMembers(members, i) ==
    IF i > Len(members) THEN << >>
    ELSE (IF i > 1 THEN << Punct(",") >> ELSE << >>)
            \o << Tok("str", members[i].key), Punct(":") >>
            \o Dumps(members[i].value) \o DumpMembers(members, i + 1)

\* json.loads: a recursive-descent parse; each operator returns the value
\* read and the tokens left.  An object becomes a dict: a repeated key keeps
\* its first position and its last value.
RECURSIVE ParseValue(_)
RECURSIVE ParseItems(_, _)
RECURSIVE ParseMembers(_, _)
ParseValue(toks) ==
    LET h == Head(toks)
    IN  IF h.t = "null" THEN [ val |-> JNull, rest |-> Tail(toks) ]
        ELSE IF h.t = "true" THEN [ val |-> JBool(TRUE), rest |-> Tail(toks) ]
        ELSE IF h.t = "false" THEN [ val |-> JBool(FALSE), rest |-> Tail(toks) ]
        ELSE IF h.t = "num" THEN [ val |-> JNum(h.v), rest |-> Tail(toks) ]
        ELSE IF h.t = "str" THEN [ val |-> JStr(h.v), rest |-> Tail(toks) ]
        ELSE IF h.t = "[" THEN ParseItems(Tail(toks), << >>)
        ELSE ParseMembers(Tail(toks), << >>)

ParseItems(toks, acc) ==
    IF Head(toks).t = "]" THEN [ val |-> JArr(acc), rest |-> Tail(toks) ]
    ELSE IF Head(toks).t = "," THEN ParseItems(Tail(toks), acc)
    ELSE LET item == ParseValue(toks)
         IN  ParseItems(item.rest, Append(acc, item.val))

ParseMembers(toks, acc) ==
    IF Head(toks).t = "}" THEN [ val |-> JObj(acc), rest |-> Tail(toks) ]
    ELSE IF Head(toks).t = "," THEN ParseMembers(Tail(toks), acc)
    ELSE LET item == ParseValue(Tail(Tail(toks)))
         IN  ParseMembers(item.rest, DictSet(acc, Head(toks).v, item.val))

Loads(text) == ParseValue(text).val

\* obj[key] on a parsed object
ObjGet(obj, key) ==
    obj.members[CHOOSE i \in 1..Len(obj.members) : obj.members[i].key = key].value

\* ContractComplianceReport.to_json
to_json(self) == Dumps(ReportJson(ReportToDict(self)))

----------------------------------------------------------------------------
(* check_multiple_contracts / check_contract / execute_check, step by step *)

\* value of a local variable outside the call that owns it
Idle == None

\* one call made by check_contract: callee, argument, what it returned
Call(name, arg, ret) == [ call |-> name, arg |-> arg, ret |-> ret ]

\* the lists of contracts given to check_multiple_contracts: every locator
\* occurs, in lists of one, two and three contracts
Batches ==
    { << LocDirB2C >>,
      << LocB2BUpper, LocDirOnly >>,
      << LocB2C, LocTwoTokens, LocPlain >> }

\* the calls of check_multiple_contracts that are explored: every batch with
\* the registry of the constructor, and the one-contract batch, whose
\* contract is a B2B one, with the extended registry
Runs ==
    { [ registry |-> SourceMappings, batch |-> b ] : b \in Batches }
        \cup { [ registry |-> r, batch |-> << LocDirB2C >> ] : r \in Registries }

Init ==
    /\ \E run \in Runs :
          /\ article_mappings = run.registry
          /\ contract_paths = run.batch
    /\ idx = 1
    /\ pc = "loop"
    /\ report = Idle
    /\ g = Idle
    /\ todo = << >>
    /\ result = Idle
    /\ rows = << >>
    /\ reports = << >>
    /\ trace = << >>
    /\ traces = << >>
    /\ exported = Idle
    /\ heap = << >>
    /\ apiReport = Idle
    /\ detections = << >>
    /\ written = Idle
    /\ exit_code = Idle

ApiUnchanged == UNCHANGED << heap, apiReport, detections, written, exit_code >>

ReturnReport_halts_on_load_error(rep, tr) ==
    /\ reports' = Append(reports, rep)
    /\ traces' = Append(traces, tr)
    /\ idx' = IF Truthy(rep.load_error) THEN Len(contract_paths) + 1 ELSE idx + 1
    /\ pc' = "loop"
    /\ report' = Idle
    /\ g' = Idle
    /\ todo' = << >>
    /\ result' = Idle
    /\ rows' = << >>
    /\ trace' = << >>

\* `return report` of check_contract followed by reports.append(report) and
\* the next turn of the for-loop of check_multiple_contracts
ReturnReport(rep, tr) ==
    /\ reports' = Append(reports, rep)
    /\ traces' = Append(traces, tr)
    /\ idx' = idx + 1
    /\ pc' = "loop"
    /\ report' = Idle
    /\ g' = Idle
    /\ todo' = << >>
    /\ result' = Idle
    /\ rows' = << >>
    /\ trace' = << >>

\* for contract_path in contract_paths: check_contract(contract_path) up to
\* the construction of the report (contract_name defaults to the stem)
CheckContractBegin ==
    /\ pc = "loop"
    /\ idx <= Len(contract_paths)
    /\ report' = ContractComplianceReport(Stem(contract_paths[idx]), contract_paths[idx])
    /\ pc' = "load"
    /\ UNCHANGED << article_mappings, contract_paths, idx, g, todo, result, rows,
                    reports, trace, traces, exported >>
    /\ ApiUnchanged

\* the for-loop is exhausted: return reports
CheckMultipleReturn ==
    /\ pc = "loop"
    /\ idx > Len(contract_paths)
    /\ pc' = "done"
    /\ UNCHANGED << article_mappings, contract_paths, idx, report, g, todo, result,
                    rows, reports, trace, traces, exported >>
    /\ ApiUnchanged

LoadContractFails_continues(error) ==
    /\ pc = "load"
    /\ error \in LoadErrors
    /\ report' = [ report EXCEPT !.load_error = error ]
    /\ g' = [ instances |-> {} ]
    /\ trace' = Append(trace, Call("load_contract", report.contract_path, error))
    /\ pc' = "detect"
    /\ UNCHANGED << article_mappings, contract_paths, idx, todo, result, rows,
                    reports, traces, exported >>
    /\ ApiUnchanged

\* load_contract returns (g, error) with a message: set load_error, return
LoadContractFails(error) ==
    /\ pc = "load"
    /\ error \in LoadErrors
    /\ ReturnReport([ report EXCEPT !.load_error = error ],
                    Append(trace, Call("load_contract", report.contract_path, error)))
    /\ UNCHANGED << article_mappings, contract_paths, exported >>
    /\ ApiUnchanged

\* load_contract returns (g, None)
LoadContractOk(graph) ==
    /\ pc = "load"
    /\ graph \in Graphs
    /\ g' = graph
    /\ trace' = Append(trace, Call("load_contract", report.contract_path, None))
    /\ pc' = "detect"
    /\ UNCHANGED << article_mappings, contract_paths, idx, report, todo, result, rows,
                    reports, traces, exported >>
    /\ ApiUnchanged

\* the g.query(PREFIX + q).askAnswer calls of the fallback loop
AskCalls(graph, asked) ==
    [ i \in 1..Len(asked) |-> Call("ask", asked[i], AskAnswer(graph, asked[i])) ]

DetectContractType_unknown_runs_on ==
    /\ pc = "detect"
    /\ LET d   == detect_contract_type(g, report.contract_path)
           rep == [ report EXCEPT !.contract_type = d.type ]
           tr  == Append(trace \o AskCalls(g, d.asked),
                         Call("detect_contract_type", report.contract_path, d.type))
       IN  /\ report' = rep
           /\ trace' = tr
           /\ todo' = Get(article_mappings, d.type)
           /\ pc' = "checks"
           /\ UNCHANGED << idx, g, result, rows, reports, traces >>
    /\ UNCHANGED << article_mappings, contract_paths, exported >>
    /\ ApiUnchanged

\* contract_type = detect_contract_type(g, contract_path); the UNKNOWN
\* short-circuit; the lookup of the applicable checks
DetectContractType ==
    /\ pc = "detect"
    /\ LET d   == detect_contract_type(g, report.contract_path)
           rep == [ report EXCEPT !.contract_type = d.type ]
           tr  == Append(trace \o AskCalls(g, d.asked),
                         Call("detect_contract_type", report.contract_path, d.type))
       IN  IF d.type = "UNKNOWN"
           THEN ReturnReport([ rep EXCEPT !.load_error = MsgUnknownType ], tr)
           ELSE /\ report' = rep
                /\ trace' = tr
                /\ todo' = Get(article_mappings, d.type)
                /\ pc' = "checks"
                /\ UNCHANGED << idx, g, result, rows, reports, traces >>
    /\ UNCHANGED << article_mappings, contract_paths, exported >>
    /\ ApiUnchanged

\* the for-loop over applicable_checks is exhausted: return report
CheckContractReturn ==
    /\ pc = "checks"
    /\ todo = << >>
    /\ ReturnReport(report, trace)
    /\ UNCHANGED << article_mappings, contract_paths, exported >>
    /\ ApiUnchanged

\* execute_check is entered for the next descriptor: result = ComplianceResult(..)
ExecuteCheckBegin ==
    /\ pc = "checks"
    /\ todo # << >>
    /\ result' = ComplianceResult(Head(todo).article_id, Head(todo).article_name)
    /\ pc' = "exec_open"
    /\ UNCHANGED << article_mappings, contract_paths, idx, report, g, todo, rows,
                    reports, trace, traces, exported >>
    /\ ApiUnchanged

ReturnResult_aborts_on_error(res) ==
    /\ report' = add_check(report, res.article_id, res)
    /\ todo' = IF Truthy(res.error) THEN << >> ELSE Tail(todo)
    /\ result' = Idle
    /\ rows' = << >>
    /\ trace' = Append(trace, Call("execute_check", res.article_id, res.error))
    /\ pc' = "checks"
    /\ UNCHANGED << article_mappings, contract_paths, idx, g, reports, traces, exported >>
    /\ ApiUnchanged

\* `return result` of execute_check followed by report.add_check(article_id,
\* check_result) and the next turn of the for-loop of check_contract
ReturnResult(res) ==
    /\ report' = add_check(report, res.article_id, res)
    /\ todo' = Tail(todo)
    /\ result' = Idle
    /\ rows' = << >>
    /\ trace' = Append(trace, Call("execute_check", res.article_id, res.error))
    /\ pc' = "checks"
    /\ UNCHANGED << article_mappings, contract_paths, idx, g, reports, traces, exported >>
    /\ ApiUnchanged

\* not query_path.exists(): result.error is set and the result returned
QueryFileMissing ==
    /\ pc = "exec_open"
    /\ ReturnResult(SetError(result, MsgQueryFileNotFound))

\* the query file is opened and read
ReadQuery ==
    /\ pc = "exec_open"
    /\ pc' = "exec_query"
    /\ UNCHANGED << article_mappings, contract_paths, idx, report, g, todo, result,
                    rows, reports, trace, traces, exported >>
    /\ ApiUnchanged

\* open()/read() raises: the except clause records the error
ReadQueryFails ==
    /\ pc = "exec_open"
    /\ ReturnResult(SetError(result, MsgErrorExecuting))

\* query_results = g.query(query) succeeds; the rows are what its iteration
\* will produce if nothing fails
RunQuery(resultSet) ==
    /\ pc = "exec_query"
    /\ resultSet \in ResultSets
    /\ rows' = resultSet
    /\ pc' = "exec_iter"
    /\ UNCHANGED << article_mappings, contract_paths, idx, report, g, todo, result,
                    reports, trace, traces, exported >>
    /\ ApiUnchanged

\* g.query(query) raises (malformed query, store error)
RunQueryFails ==
    /\ pc = "exec_query"
    /\ ReturnResult(SetError(result, MsgErrorExecuting))

\* one turn of `for row in query_results`: build the violation, add it
ProcessRow ==
    /\ pc = "exec_iter"
    /\ rows # << >>
    /\ result' = add_violation(result, ViolationOf(Head(rows)))
    /\ rows' = Tail(rows)
    /\ UNCHANGED << article_mappings, contract_paths, idx, pc, report, g, todo,
                    reports, trace, traces, exported >>
    /\ ApiUnchanged

\* the lazily evaluated result raises while the next row is fetched or
\* converted: the except clause records the error on the same result object
IterationFails ==
    /\ pc = "exec_iter"
    /\ ReturnResult(SetError(result, MsgErrorExecuting))

\* the iteration ends normally
IterationEnds ==
    /\ pc = "exec_iter"
    /\ rows = << >>
    /\ ReturnResult(result)

\* ComplianceReporter.export_json(reports, output_path)
ExportJson ==
    /\ pc = "done"
    /\ exported' = export_json(reports)
    /\ written' = Dumps(BatchJson(export_json(reports)))
    /\ pc' = "exported"
    /\ UNCHANGED << article_mappings, contract_paths, idx, report, g, todo, result,
                    rows, reports, trace, traces, heap, apiReport, detections,
                    exit_code >>

Next ==
    \/ CheckContractBegin
    \/ CheckMultipleReturn
    \/ \E error \in LoadErrors : LoadContractFails(error)
    \/ \E graph \in Graphs : LoadContractOk(graph)
    \/ DetectContractType
    \/ CheckContractReturn
    \/ ExecuteCheckBegin
    \/ QueryFileMissing
    \/ ReadQuery
    \/ ReadQueryFails
    \/ \E resultSet \in ResultSets : RunQuery(resultSet)
    \/ RunQueryFails
    \/ ProcessRow
    \/ IterationFails
    \/ IterationEnds
    \/ ExportJson

Spec == Init /\ [][Next]_vars

----------------------------------------------------------------------------
(* The two classes driven directly by a client.  ComplianceResult objects  *)
(* live in `heap`; a report's checks hold references to them, so a result  *)
(* that is mutated after add_check is seen through the report.             *)

ApiIds == { "4.1", "8.6" }

\* values a client assigns to report.load_error
ApiLoadErrors == { None, "", MsgFileNotFound }

\* the report with its references replaced by the objects they point to
Deref(rep, hp) ==
    [ rep EXCEPT !.checks =
        [ i \in 1..Len(rep.checks) |->
            [ key |-> rep.checks[i].key, value |-> hp[rep.checks[i].value] ] ] ]

InitApi ==
    /\ article_mappings = SourceMappings
    /\ contract_paths = << >>
    /\ idx = 1
    /\ pc = "api"
    /\ report = Idle
    /\ g = Idle
    /\ todo = << >>
    /\ result = Idle
    /\ rows = << >>
    /\ reports = << >>
    /\ trace = << >>
    /\ traces = << >>
    /\ exported = Idle
    /\ heap = << >>
    /\ apiReport = ContractComplianceReport(Stem(LocPlain), LocPlain)
    /\ detections = << >>
    /\ written = Idle
    /\ exit_code = Idle

PipelineUnchanged ==
    UNCHANGED << article_mappings, contract_paths, idx, pc, report, g, todo, result,
                 rows, reports, trace, traces, exported, detections, written,
                 exit_code >>

\* ComplianceResult(article_id, article_name)
ApiNewResult(article_id) ==
    /\ pc = "api"
    /\ Len(heap) < MaxObjs
    /\ heap' = Append(heap, ComplianceResult(article_id, "<article_name>"))
    /\ UNCHANGED apiReport
    /\ PipelineUnchanged

\* result.add_violation(violation)
ApiAddViolation(o, row) ==
    /\ pc = "api"
    /\ o \in 1..Len(heap)
    /\ Len(heap[o].violations) < MaxViolations
    /\ heap' = [ heap EXCEPT ![o] = add_violation(@, ViolationOf(row)) ]
    /\ UNCHANGED apiReport
    /\ PipelineUnchanged

\* result.error = message
ApiSetError(o, message) ==
    /\ pc = "api"
    /\ o \in 1..Len(heap)
    /\ heap' = [ heap EXCEPT ![o] = SetError(@, message) ]
    /\ UNCHANGED apiReport
    /\ PipelineUnchanged

\* report.add_check(article_id, result)
ApiAddCheck(article_id, o) ==
    /\ pc = "api"
    /\ o \in 1..Len(heap)
    /\ apiReport' = add_check(apiReport, article_id, o)
    /\ UNCHANGED heap
    /\ PipelineUnchanged

\* report.load_error = value
ApiSetLoadError(value) ==
    /\ pc = "api"
    /\ apiReport' = [ apiReport EXCEPT !.load_error = value ]
    /\ UNCHANGED heap
    /\ PipelineUnchanged

NextApi ==
    \/ \E article_id \in ApiIds : ApiNewResult(article_id)
    \/ \E o \in 1..MaxObjs, row \in RowSet : ApiAddViolation(o, row)
    \/ \E o \in 1..MaxObjs, message \in CheckErrors : ApiSetError(o, message)
    \/ \E article_id \in ApiIds, o \in 1..MaxObjs : ApiAddCheck(article_id, o)
    \/ \E value \in ApiLoadErrors : ApiSetLoadError(value)

SpecApi == InitApi /\ [][NextApi]_vars

----------------------------------------------------------------------------
(* What the properties range over *)

\* control points inside check_contract, and inside execute_check
InContract == { "load", "detect", "checks", "exec_open", "exec_query", "exec_iter" }
Classified == { "checks", "exec_open", "exec_query", "exec_iter" }
InExecute  == { "exec_open", "exec_query", "exec_iter" }

\* every report that exists: the returned ones and the one being built
LiveReports ==
    { reports[i] : i \in 1..Len(reports) }
        \cup (IF pc \in InContract THEN { report } ELSE {})

\* every ComplianceResult that exists: those held by a report and the one
\* execute_check is working on
LiveResults ==
    UNION { { r.checks[i].value : i \in 1..Len(r.checks) } : r \in LiveReports }
        \cup (IF pc \in InExecute THEN { result } ELSE {})

\* number of violation records held by the checks of a report, counted
\* record by record
ViolationRecords(r) ==
    Cardinality(UNION { { << i, j >> : j \in 1..Len(r.checks[i].value.violations) } :
                          i \in 1..Len(r.checks) })

\* the contracts check_contract has returned, and the one it is working on:
\* the report together with the calls made for it
Returned == { [ rep |-> reports[i], tr |-> traces[i] ] : i \in 1..Len(reports) }

Current == IF pc \in InContract THEN { [ rep |-> report, tr |-> trace ] } ELSE {}

CallsTo(tr, name) == SelectSeq(tr, LAMBDA c : c.call = name)

\* load_contract returned an error for this contract
LoadFailed(tr) ==
    \E k \in 1..Len(tr) : tr[k].call = "load_contract" /\ tr[k].ret # None

\* detect_contract_type was called for this contract and returned type t
ClassifiedAs(tr, t) ==
    \E k \in 1..Len(tr) : tr[k].call = "detect_contract_type" /\ tr[k].ret = t

----------------------------------------------------------------------------
(* C1 *)

\* C1: a report whose load_error is not None is never overall compliant,
\* whatever value was assigned to load_error (the empty message included)
\* and whatever its checks are.
C1_LoadErrorForcesNonCompliant ==
    pc = "api" =>
        (apiReport.load_error # None => ~overall_compliant(Deref(apiReport, heap)))

----------------------------------------------------------------------------
(* C2 *)

\* C2: every ComplianceResult, at every point of execute_check and once it
\* is held by a report, has compliant = TRUE exactly when its violations
\* sequence is empty; a result whose error has been set is no exception.
C2_CompliantIffNoViolations ==
    \A r \in LiveResults : r.compliant <=> (r.violations = << >>)

\* a returned result that carries an error although violations were added
\* before the failure, and one that carries an error and no violation
C2_Witness ==
    /\ \E r \in LiveResults : r.error # None /\ r.violations # << >> /\ ~r.compliant
    /\ \E r \in LiveResults : r.error # None /\ r.violations = << >> /\ r.compliant

----------------------------------------------------------------------------
(* C3 *)

----------------------------------------------------------------------------
(* C4 *)

\* C4: total_violations of a report is the number of violation records its
\* checks hold (errored checks included), and the total_violations of the
\* exported batch document is the number of violation records of all the
\* reports of the batch.
C4_TotalViolationsIsRecordCount ==
    /\ \A r \in LiveReports : total_violations(r) = ViolationRecords(r)
    /\ pc = "exported" =>
          /\ exported.total_violations
                = SumSeq([ i \in 1..Len(reports) |-> ViolationRecords(reports[i]) ])
          /\ \A i \in 1..Len(reports) :
                exported.reports[i].total_violations = ViolationRecords(reports[i])

\* an exported batch in which two reports hold a violation, one of them in
\* a check that carries an error
C4_Witness ==
    /\ pc = "exported"
    /\ exported.total_violations >= 2
    /\ \E i, j \in 1..Len(reports) :
          /\ i # j
          /\ total_violations(reports[i]) > 0
          /\ total_violations(reports[j]) > 0
          /\ \E k \in 1..Len(reports[j].checks) :
                /\ reports[j].checks[k].value.error # None
                /\ reports[j].checks[k].value.violations # << >>

----------------------------------------------------------------------------
(* C5 *)

\* C5: every result execute_check returns with error set has an empty
\* violations sequence and compliant = TRUE, for a missing query file as
\* for a failure at any point of the query or of the iteration of its rows.
C5_ErrorMeansNoViolations ==
    \A r \in LiveReports :
        \A i \in 1..Len(r.checks) :
            r.checks[i].value.error # None =>
                r.checks[i].value.violations = << >> /\ r.checks[i].value.compliant

----------------------------------------------------------------------------
(* C6 *)

\* C6: when load_contract returns an error, check_contract returns at once:
\* the report has that error as load_error, no checks, is not overall
\* compliant, counts 0 violations, and load_contract is the only call made
\* for the contract (no detect_contract_type, no execute_check).
C6_LoadFailureShortCircuits ==
    /\ \A c \in Returned :
          LoadFailed(c.tr) =>
              /\ c.rep.load_error = c.tr[1].ret
              /\ c.rep.checks = << >>
              /\ ~overall_compliant(c.rep)
              /\ total_violations(c.rep) = 0
              /\ Len(c.tr) = 1
    /\ \A c \in Current : ~LoadFailed(c.tr)

\* a batch in which a contract failed to load (file missing) and another
\* failed to parse
C6_Witness ==
    /\ \E c \in Returned : LoadFailed(c.tr) /\ c.rep.load_error = MsgFileNotFound
    /\ \E c \in Returned : LoadFailed(c.tr) /\ c.rep.load_error = MsgErrorLoading

----------------------------------------------------------------------------
(* C7 *)

\* C7: when detect_contract_type returns UNKNOWN, check_contract returns a
\* report with contract_type UNKNOWN, the 'could not determine contract type'
\* load_error and no checks; execute_check is not called and the report is
\* not overall compliant.
C7_UnknownTypeShortCircuits ==
    /\ \A c \in Returned :
          ClassifiedAs(c.tr, "UNKNOWN") =>
              /\ c.rep.contract_type = "UNKNOWN"
              /\ c.rep.load_error = MsgUnknownType
              /\ c.rep.checks = << >>
              /\ CallsTo(c.tr, "execute_check") = << >>
              /\ ~overall_compliant(c.rep)
    /\ \A c \in Current : ~ClassifiedAs(c.tr, "UNKNOWN")

\* a returned contract that loaded, matched no token and no ASK query
C7_Witness ==
    \E c \in Returned :
        /\ ClassifiedAs(c.tr, "UNKNOWN")
        /\ ~LoadFailed(c.tr)
        /\ Len(CallsTo(c.tr, "ask")) = 3

----------------------------------------------------------------------------
(* C8 *)

\* C8: for a contract classified to a known category, the returned report
\* holds one check per descriptor of that category, in registry order, and
\* execute_check was called once per descriptor in that order; a check that
\* failed is stored with its error and the later descriptors still run.
C8_OneResultPerDescriptorInOrder ==
    \A c \in Returned :
        \A t \in Types :
            ClassifiedAs(c.tr, t) =>
                LET ds    == Get(article_mappings, t)
                    execs == CallsTo(c.tr, "execute_check")
                IN  /\ Len(c.rep.checks) = Len(ds)
                    /\ Len(execs) = Len(ds)
                    /\ \A k \in 1..Len(ds) :
                          /\ c.rep.checks[k].key = ds[k].article_id
                          /\ c.rep.checks[k].value.article_id = ds[k].article_id
                          /\ c.rep.checks[k].value.article_name = ds[k].article_name
                          /\ execs[k].arg = ds[k].article_id
                          /\ c.rep.checks[k].value.error = execs[k].ret

\* a returned report with two checks, the first failed, the second ran and
\* found a violation
C8_Witness ==
    \E c \in Returned :
        /\ Len(c.rep.checks) = 2
        /\ c.rep.checks[1].value.error = MsgQueryFileNotFound
        /\ c.rep.checks[2].value.error = None
        /\ c.rep.checks[2].value.violations # << >>

----------------------------------------------------------------------------
(* C9 *)

\* C9: every report check_contract returns has a contract_type among B2C,
\* B2B, B2G and UNKNOWN, the reports of contracts that failed to load
\* included.
C9_ContractTypeInEnumeration ==
    \A c \in Returned : c.rep.contract_type \in Types \cup { "UNKNOWN" }

----------------------------------------------------------------------------
(* C10 *)

HasToken(name) ==
    Contains(name, TokB2C) \/ Contains(name, TokB2B) \/ Contains(name, TokB2G)

\* the first of B2C, B2B, B2G whose token occurs in name
FirstToken(name) ==
    CHOOSE t \in Types :
        \E k \in 1..3 :
            /\ AskOrder[k] = t
            /\ Contains(name, << TokB2C, TokB2B, TokB2G >>[k])
            /\ \A j \in 1..(k - 1) : ~Contains(name, << TokB2C, TokB2B, TokB2G >>[j])

\* C10 as stated: when the locator, lower-cased, contains a category token,
\* the category of the first token in the order B2C, B2B, B2G is returned
\* and no ASK query is issued.
C10_LocatorTokenDecides ==
    \A c \in Returned \cup Current :
        \A k \in 1..Len(c.tr) :
            (c.tr[k].call = "detect_contract_type"
                /\ HasToken(Lower(c.rep.contract_path))) =>
                    /\ c.tr[k].ret = FirstToken(Lower(c.rep.contract_path))
                    /\ CallsTo(c.tr, "ask") = << >>

\* C10 amended: when the stem of the locator (its final path component
\* without the last suffix), lower-cased, contains a category token, the
\* category of the first token in the order B2C, B2B, B2G is returned and no
\* ASK query is issued, whatever the graph contains.
C10_StemTokenDecides ==
    \A c \in Returned \cup Current :
        \A k \in 1..Len(c.tr) :
            (c.tr[k].call = "detect_contract_type"
                /\ HasToken(Lower(Stem(c.rep.contract_path)))) =>
                    /\ c.tr[k].ret = FirstToken(Lower(Stem(c.rep.contract_path)))
                    /\ c.rep.contract_type = c.tr[k].ret
                    /\ CallsTo(c.tr, "ask") = << >>

\* 'b2g-b2c.owl' classified B2C without a query although the graph holds
\* only a B2G instance
C10_Witness ==
    /\ pc \in Classified
    /\ report.contract_path = LocTwoTokens
    /\ report.contract_type = "B2C"
    /\ g.instances = { "B2G" }
    /\ CallsTo(trace, "ask") = << >>

----------------------------------------------------------------------------
(* C11 *)

\* C11: when check_contract passes a locator whose stem holds no category
\* token, detect_contract_type asks the instance queries in the order B2C,
\* B2B, B2G, stops at the first one answered true and returns its category;
\* it returns UNKNOWN only after all three were answered false.
C11_TokenMissDefersToGraph ==
    \A c \in Returned \cup Current :
        \A d \in 1..Len(c.tr) :
            (c.tr[d].call = "detect_contract_type"
                /\ TruthyPath(c.rep.contract_path)
                /\ ~HasToken(Lower(Stem(c.rep.contract_path)))) =>
                    LET asks == CallsTo(c.tr, "ask")
                        n    == Len(asks)
                    IN  /\ n \in 1..Len(AskOrder)
                        /\ \A k \in 1..n : asks[k].arg = AskOrder[k]
                        /\ \A k \in 1..(n - 1) : ~asks[k].ret
                        /\ asks[n].ret => c.tr[d].ret = asks[n].arg
                        /\ ~asks[n].ret => n = Len(AskOrder) /\ c.tr[d].ret = "UNKNOWN"

\* 'b2g/sample.owl' with a graph holding a B2B and a B2G instance: B2C and
\* B2B were asked, B2B was returned
C11_Witness ==
    /\ pc \in Classified
    /\ report.contract_path = LocDirOnly
    /\ g.instances = { "B2B", "B2G" }
    /\ report.contract_type = "B2B"
    /\ Len(CallsTo(trace, "ask")) = 2

----------------------------------------------------------------------------
(* run_compliance_check.py: main.  The checker is constructed, the three   *)
(* listed contracts are checked with check_contract (the steps above), the *)
(* batch is exported and the exit status computed.  The except clause      *)
(* around check_contract has no way to run here: load_contract and         *)
(* execute_check catch their failures and the three ASK queries are fixed, *)
(* well-formed text.                                                       *)

\* 'compliance-checks/contracts/contract-b2c-charlie.owl'
MainPathB2C ==
    <<
       "c", "o", "m", "p", "l", "i", "a", "n", "c", "e", "-", "c", "h", "e",
       "c", "k", "s", "/", "c", "o", "n", "t", "r", "a", "c", "t", "s", "/",
       "c", "o", "n", "t", "r", "a", "c", "t", "-", "b", "2", "c", "-", "c",
       "h", "a", "r", "l", "i", "e", ".", "o", "w", "l" >>

\* 'compliance-checks/contracts/contract-b2b-robot.owl'
MainPathB2B ==
    <<
       "c", "o", "m", "p", "l", "i", "a", "n", "c", "e", "-", "c", "h", "e",
       "c", "k", "s", "/", "c", "o", "n", "t", "r", "a", "c", "t", "s", "/",
       "c", "o", "n", "t", "r", "a", "c", "t", "-", "b", "2", "b", "-", "r",
       "o", "b", "o", "t", ".", "o", "w", "l" >>

\* 'compliance-checks/contracts/contract-b2g-health.owl'
MainPathB2G ==
    <<
       "c", "o", "m", "p", "l", "i", "a", "n", "c", "e", "-", "c", "h", "e",
       "c", "k", "s", "/", "c", "o", "n", "t", "r", "a", "c", "t", "s", "/",
       "c", "o", "n", "t", "r", "a", "c", "t", "-", "b", "2", "g", "-", "h",
       "e", "a", "l", "t", "h", ".", "o", "w", "l" >>

\* the `contracts` list of main
MainContracts ==
    << [ path |-> MainPathB2C, name |-> "B2C - Charlie's Smart Watch" ],
       [ path |-> MainPathB2B, name |-> "B2B - Industrial Robot Maintenance" ],
       [ path |-> MainPathB2G, name |-> "B2G - Public Health Emergency" ] >>

exit_status_counts_load_errors(rs) ==
    IF \A i \in 1..Len(rs) : overall_compliant(rs[i]) THEN 0 ELSE 1

\* all_compliant = all(r.overall_compliant for r in reports if not r.load_error)
\* return 0 if all_compliant else 1
exit_status(rs) ==
    IF \A i \in 1..Len(rs) : ~Truthy(rs[i].load_error) => overall_compliant(rs[i])
    THEN 0
    ELSE 1

InitMain ==
    /\ article_mappings = SourceMappings
    /\ contract_paths = [ i \in 1..Len(MainContracts) |-> MainContracts[i].path ]
    /\ idx = 1
    /\ pc = "main_init"
    /\ report = Idle
    /\ g = Idle
    /\ todo = << >>
    /\ result = Idle
    /\ rows = << >>
    /\ reports = << >>
    /\ trace = << >>
    /\ traces = << >>
    /\ exported = Idle
    /\ heap = << >>
    /\ apiReport = Idle
    /\ detections = << >>
    /\ written = Idle
    /\ exit_code = Idle

\* DataActComplianceChecker(...) raises (base ontology or queries directory
\* missing): return 1
MainInitFails ==
    /\ pc = "main_init"
    /\ pc' = "exit_init"
    /\ exit_code' = 1
    /\ UNCHANGED << article_mappings, contract_paths, idx, report, g, todo, result,
                    rows, reports, trace, traces, exported, heap, apiReport,
                    detections, written >>

\* the checker is constructed
MainInitOk ==
    /\ pc = "main_init"
    /\ pc' = "loop"
    /\ UNCHANGED << article_mappings, contract_paths, idx, report, g, todo, result,
                    rows, reports, trace, traces, exported >>
    /\ ApiUnchanged

\* for contract_info in contracts: check_contract(contract_path, contract_name)
\* up to the construction of the report
MainCheckContractBegin ==
    /\ pc = "loop"
    /\ idx <= Len(MainContracts)
    /\ report' = ContractComplianceReport(MainContracts[idx].name, MainContracts[idx].path)
    /\ pc' = "load"
    /\ UNCHANGED << article_mappings, contract_paths, idx, g, todo, result, rows,
                    reports, trace, traces, exported >>
    /\ ApiUnchanged

\* the for-loop is exhausted; the reports and the summary are printed
MainLoopEnds ==
    /\ pc = "loop"
    /\ idx > Len(MainContracts)
    /\ pc' = "done"
    /\ UNCHANGED << article_mappings, contract_paths, idx, report, g, todo, result,
                    rows, reports, trace, traces, exported >>
    /\ ApiUnchanged

\* export_json raises (the output file cannot be written): caught, reported
MainExportFails ==
    /\ pc = "done"
    /\ pc' = "exported"
    /\ UNCHANGED << article_mappings, contract_paths, idx, report, g, todo, result,
                    rows, reports, trace, traces, exported >>
    /\ ApiUnchanged

\* the exit status is computed and returned
MainReturn ==
    /\ pc = "exported"
    /\ exit_code' = exit_status(reports)
    /\ pc' = "exit"
    /\ UNCHANGED << article_mappings, contract_paths, idx, report, g, todo, result,
                    rows, reports, trace, traces, exported, heap, apiReport,
                    detections, written >>

NextMain ==
    \/ MainInitFails
    \/ MainInitOk
    \/ MainCheckContractBegin
    \/ MainLoopEnds
    \/ \E error \in LoadErrors : LoadContractFails(error)
    \/ \E graph \in Graphs : LoadContractOk(graph)
    \/ DetectContractType
    \/ CheckContractReturn
    \/ ExecuteCheckBegin
    \/ QueryFileMissing
    \/ ReadQuery
    \/ ReadQueryFails
    \/ \E resultSet \in ResultSets : RunQuery(resultSet)
    \/ RunQueryFails
    \/ ProcessRow
    \/ IterationFails
    \/ IterationEnds
    \/ ExportJson
    \/ MainExportFails
    \/ MainReturn

SpecMain == InitMain /\ [][NextMain]_vars

----------------------------------------------------------------------------
(* C12 *)

\* every report without load_error is overall compliant
LoadedReportsCompliant ==
    \A i \in 1..Len(reports) :
        reports[i].load_error = None => overall_compliant(reports[i])

\* C12 as stated: whenever main returns, the exit status is 0 if every
\* report without load_error is overall compliant, and 1 otherwise.
C12_ExitStatusFromLoadedReports ==
    pc \in { "exit_init", "exit" } =>
        exit_code = IF LoadedReportsCompliant THEN 0 ELSE 1

\* C12 amended: main returns 1 when the checker cannot be constructed;
\* otherwise it returns 0 if every report without load_error is overall
\* compliant and 1 if not, and reports with a load_error have no influence.
C12_ExitStatusAfterInit ==
    /\ pc = "exit_init" => exit_code = 1
    /\ pc = "exit" => exit_code = IF LoadedReportsCompliant THEN 0 ELSE 1

\* main returned 0 although one contract failed to load; the other two were
\* checked and are compliant
C12_Witness ==
    /\ pc = "exit"
    /\ exit_code = 0
    /\ \E i \in 1..Len(reports) : reports[i].load_error # None
    /\ \E i \in 1..Len(reports) :
          reports[i].load_error = None /\ reports[i].checks # << >>

----------------------------------------------------------------------------
(* C13 *)

\* C13: in check_multiple_contracts a contract that fails to load, or whose
\* category cannot be determined, gets the failure as the load_error of its
\* own report and the loop goes on: when the call returns there is one
\* report per input locator, in input order, and load_contract was called
\* for every locator, those after a failed contract included.
C13_LoadFailureDoesNotHaltBatch ==
    /\ \A c \in Returned :
          /\ LoadFailed(c.tr) => c.rep.load_error = c.tr[1].ret
          /\ ClassifiedAs(c.tr, "UNKNOWN") => c.rep.load_error = MsgUnknownType
    /\ pc = "loop" => Len(reports) = idx - 1
    /\ pc \in { "done", "exported" } =>
          /\ Len(reports) = Len(contract_paths)
          /\ \A i \in 1..Len(contract_paths) :
                /\ reports[i].contract_path = contract_paths[i]
                /\ traces[i] # << >>
                /\ traces[i][1].call = "load_contract"
                /\ traces[i][1].arg = contract_paths[i]

\* a returned batch of three: the first contract failed to load, the second
\* was checked, the third could not be classified
C13_Witness ==
    /\ pc = "done"
    /\ Len(reports) = 3
    /\ reports[1].load_error \in LoadErrors
    /\ reports[2].load_error = None
    /\ reports[2].checks # << >>
    /\ reports[3].load_error = MsgUnknownType

----------------------------------------------------------------------------
(* C14 *)

\* what a reader of a serialized report finds under "checks": for each rule
\* id, in document order, the compliant flag and the violation_count
ReadChecks(doc) ==
    LET members == ObjGet(doc, "checks").members
    IN  [ i \in 1..Len(members) |->
            [ id              |-> members[i].key,
              compliant       |-> ObjGet(members[i].value, "compliant").b,
              violation_count |-> ObjGet(members[i].value, "violation_count").n ] ]

\* the same mapping taken from the report object itself
ChecksOf(r) ==
    [ i \in 1..Len(r.checks) |->
        [ id              |-> r.checks[i].key,
          compliant       |-> r.checks[i].value.compliant,
          violation_count |-> Len(r.checks[i].value.violations) ] ]

\* C14: serializing a report (to_json of the report check_contract has just
\* returned, and every report as an element of the exported batch document)
\* and parsing the text back gives, rule id by rule id and in the order of
\* the report, the compliant flag of the check and a violation_count equal
\* to the number of its violations.
C14_SerializedChecksRoundTrip ==
    /\ (pc = "loop" /\ reports # << >>) =>
          LET r == reports[Len(reports)]
          IN  ReadChecks(Loads(to_json(r))) = ChecksOf(r)
    /\ (pc = "exported" /\ written # Idle) =>
          LET docs == ObjGet(Loads(written), "reports").items
          IN  /\ Len(docs) = Len(reports)
              /\ \A i \in 1..Len(reports) : ReadChecks(docs[i]) = ChecksOf(reports[i])

\* an exported batch holding a report with two checks, the first with an
\* error and a violation, the second compliant
C14_Witness ==
    /\ pc = "exported"
    /\ written # Idle
    /\ \E i \in 1..Len(reports) :
          /\ Len(reports[i].checks) = 2
          /\ reports[i].checks[1].value.error # None
          /\ reports[i].checks[1].value.violations # << >>
          /\ reports[i].checks[2].value.compliant

----------------------------------------------------------------------------
(* detect_contract_type called directly, with and without a locator *)

\* the contract_path arguments: the locators, the empty string and the
\* default None
DetectPaths == Locators \cup { << >>, NoPath }

InitDetect ==
    /\ article_mappings = SourceMappings
    /\ contract_paths = << >>
    /\ idx = 1
    /\ pc = "classifier"
    /\ report = Idle
    /\ g = Idle
    /\ todo = << >>
    /\ result = Idle
    /\ rows = << >>
    /\ reports = << >>
    /\ trace = << >>
    /\ traces = << >>
    /\ exported = Idle
    /\ heap = << >>
    /\ apiReport = Idle
    /\ detections = << >>
    /\ written = Idle
    /\ exit_code = Idle

\* checker.detect_contract_type(g, contract_path)
DetectCall(graph, contract_path) ==
    /\ pc = "classifier"
    /\ Len(detections) < MaxCalls
    /\ LET d == detect_contract_type(graph, contract_path)
       IN  detections' = Append(detections,
                                [ graph |-> graph, path |-> contract_path,
                                  type |-> d.type, asked |-> d.asked ])
    /\ UNCHANGED << article_mappings, contract_paths, idx, pc, report, g, todo, result,
                    rows, reports, trace, traces, exported, heap, apiReport, written,
                    exit_code >>

NextDetect ==
    \E graph \in Graphs, contract_path \in DetectPaths : DetectCall(graph, contract_path)

SpecDetect == InitDetect /\ [][NextDetect]_vars

----------------------------------------------------------------------------
(* C15 *)

\* C15 as stated: the ASK queries are reached only when no locator is
\* supplied (None, or the empty string, which the code treats alike); a
\* supplied locator that matches no token leaves the graph unqueried.
C15_GraphAskedOnlyWithoutLocator ==
    \A i \in 1..Len(detections) :
        detections[i].asked # << >> => detections[i].path \in { NoPath, << >> }

\* C15 amended: the ASK queries are reached when no locator is supplied
\* (None or the empty string) and also when the stem of the supplied locator
\* contains no category token; the graph is left unqueried exactly when the
\* stem of a supplied locator contains a token.
C15_GraphAskedUnlessStemToken ==
    \A i \in 1..Len(detections) :
        LET d == detections[i]
        IN  (d.asked = << >>) <=>
                (d.path \notin { NoPath, << >> } /\ HasToken(Lower(Stem(d.path))))

\* one call without a locator and one with 'sample.owl', both answered by
\* the graph
C15_Witness ==
    /\ \E i \in 1..Len(detections) :
          detections[i].path = NoPath /\ detections[i].asked # << >>
    /\ \E i \in 1..Len(detections) :
          /\ detections[i].path = LocPlain
          /\ detections[i].asked # << >>
          /\ detections[i].type = "B2G"

----------------------------------------------------------------------------
(* C16 *)

\* C16: no report returned by check_contract is overall compliant while it
\* counts violations.
C16_CompliantMeansNoViolations ==
    \A c \in Returned : overall_compliant(c.rep) => total_violations(c.rep) = 0

====
